---- MODULE Spec2Model ----
(***************************************************************************)
(* Model of the page renderer script main.py (generate_page, md_to_html    *)
(* and the module-level loop over `files`) and of the image path rewriter  *)
(* described in section 4.2 of the specification.                          *)
(*                                                                         *)
(* Strings are sequences of tokens: a token is one character or one fixed  *)
(* piece of text of the source (a template line, an extension, a folder).  *)
(* The filesystem is a function from the paths of the existing files to    *)
(* their contents, together with the set of existing directories.          *)
(***************************************************************************)
EXTENDS Integers, Sequences, FiniteSets, TLC

VARIABLES
    files,          \* the configured page list (main.py:45)
    input_folder,   \* main.py:19
    output_folder,  \* main.py:20
    fs,             \* existing files: path -> content
    dirs,           \* existing directories
    idx,            \* position of the for loop in files (1-based)
    pc,             \* position of the running script
    text,           \* local of md_to_html
    html_text,      \* local of md_to_html
    output,         \* local of md_to_html
    handles,        \* open file handles: [path, mode]
    error,          \* the exception propagating, "none" when there is none
    fs0,            \* the files as they were when the current call started
    dirs0,          \* the directories as they were when the current call started
    log,            \* the I/O and render steps taken so far, in order
    posts,          \* rewriter: the files under the root directory
    todo,           \* rewriter: files the walk has not visited yet
    rw_pc,          \* rewriter: position
    rw_file,        \* rewriter: file being processed
    rw_new,         \* rewriter: result of the substitution on rw_file
    rw_writes,      \* rewriter: files opened for writing so far
    mtime           \* rewriter: modification counter of each file

pvars == <<files, input_folder, output_folder, fs, dirs, idx, pc, text,
           html_text, output, handles, error, fs0, dirs0, log>>
rvars == <<posts, todo, rw_pc, rw_file, rw_new, rw_writes, mtime>>
vars == <<files, input_folder, output_folder, fs, dirs, idx, pc, text,
          html_text, output, handles, error, fs0, dirs0, log,
          posts, todo, rw_pc, rw_file, rw_new, rw_writes, mtime>>

----------------------------------------------------------------------------
(* Bounds and input sets *)

MaxPages == 2

A_md == <<"a", ".", "m", "d">>
B_md == <<"b", ".", "m", "d">>
Note == <<"n", "o", "t", "e">>
FileNames == {A_md, B_md, Note}

Requests ==
    { [file |-> A_md, title |-> <<"M", "Q">>, description |-> <<"m", "q">>],
      [file |-> A_md, title |-> <<"<", "\"">>, description |-> <<"\"", "&">>],
      [file |-> B_md, title |-> <<"M", "Q">>, description |-> <<"m", "q">>],
      [file |-> Note, title |-> <<"M", "Q">>, description |-> <<"m", "q">>] }

PageLists == UNION { [1..n -> Requests] : n \in 1..MaxPages }

\* Contents an input file may hold: a line break, two paragraphs, and bytes
\* that are not valid text.
InputContents == { <<"x", "\n", "x">>, <<"x", "\n", "\n", "x">>, <<"0xFF">> }

OldPage == <<"old">>

----------------------------------------------------------------------------
(* Pure functions of main.py *)

\* md.render(text) for texts made of the word "x" and newlines: CommonMark
\* paragraphs, with `breaks` turning a soft line break into <br />.
RECURSIVE RenderFrom(_, _)
RenderFrom(s, open) ==
    IF s = <<>> THEN (IF open THEN <<"</p>\n">> ELSE <<>>)
    ELSE IF Head(s) = "\n"
         THEN IF ~open THEN RenderFrom(Tail(s), FALSE)
              ELSE IF Tail(s) = <<>> THEN RenderFrom(Tail(s), TRUE)
              ELSE IF Head(Tail(s)) = "\n"
                   THEN <<"</p>\n">> \o RenderFrom(Tail(s), FALSE)
                   ELSE <<"<br />\n">> \o RenderFrom(Tail(s), TRUE)
         ELSE (IF open THEN <<Head(s)>> ELSE <<"<p>", Head(s)>>)
              \o RenderFrom(Tail(s), TRUE)

MdRender(t) == RenderFrom(t, FALSE)

\* HTML escaping of a string, as html.escape would do it.
Escape(str) ==
    [ i \in 1..Len(str) |->
        IF str[i] = "<" THEN "&lt;"
        ELSE IF str[i] = "\"" THEN "&quot;"
        ELSE IF str[i] = "&" THEN "&amp;"
        ELSE str[i] ]

\* A template that escapes the title and the description.
generate_page_escaped(h, title, description) ==
    <<"<title>">> \o Escape(title) \o <<"</title>\n">>
    \o <<"<meta name=\"description\" content=\"">> \o Escape(description) \o <<"\">\n">>
    \o <<"<meta name=\"viewport\" content=\"width=device-width, initial-scale=1\">\n">>
    \o <<"<link rel=\"stylesheet\" href=\"style/github-markdown.css\">\n">>
    \o <<"<link rel=\"stylesheet\" href=\"style/format.css\">\n">>
    \o <<"<article class=\"markdown-body\">\n">>
    \o h
    \o <<"\n</article>\n">>

generate_page(h, title, description) ==
    <<"<title>">> \o title \o <<"</title>\n">>
    \o <<"<meta name=\"description\" content=\"">> \o description \o <<"\">\n">>
    \o <<"<meta name=\"viewport\" content=\"width=device-width, initial-scale=1\">\n">>
    \o <<"<link rel=\"stylesheet\" href=\"style/github-markdown.css\">\n">>
    \o <<"<link rel=\"stylesheet\" href=\"style/format.css\">\n">>
    \o <<"<article class=\"markdown-body\">\n">>
    \o h
    \o <<"\n</article>\n">>

\* file[:-2]: an off-by-one slice.
DropLast2(file) ==
    IF Len(file) > 2 THEN SubSeq(file, 1, Len(file) - 2) ELSE <<>>

\* file[:-3]
DropLast3(file) ==
    IF Len(file) > 3 THEN SubSeq(file, 1, Len(file) - 3) ELSE <<>>

\* f'{input_folder}/{file}'
InPath(file) == <<input_folder, "/">> \o file

\* The page written next to its source, under the input folder.
OutPathInInput(file) == <<input_folder, "/">> \o DropLast3(file) \o <<".html">>

\* f'{output_folder}/{file[:-3]}.html'
OutPath(file) == <<output_folder, "/">> \o DropLast3(file) \o <<".html">>

\* f.read() in text mode raises on bytes that do not decode
Decodable(content) == \A i \in 1..Len(content) : content[i] # "0xFF"

Event(op, path, data) == [op |-> op, n |-> idx, path |-> path, data |-> data]

Cur == files[idx]

----------------------------------------------------------------------------
(* Initial states *)

InputFiles ==
    { f \in [FileNames -> InputContents \cup {<<"absent">>}] : TRUE }

OutputFiles ==
    { f \in [FileNames -> {OldPage, <<"absent">>}] : TRUE }

MkFs(inf, outf, outDir) ==
    LET ins  == { n \in FileNames : inf[n] # <<"absent">> }
        outs == IF outDir THEN { n \in FileNames : outf[n] # <<"absent">> } ELSE {}
        paths == { <<"./knowledge", "/">> \o n : n \in ins }
                 \cup { <<"./notes", "/">> \o DropLast3(n) \o <<".html">> : n \in outs }
    IN [ p \in paths |->
           IF p[1] = "./knowledge"
           THEN inf[CHOOSE n \in ins : <<"./knowledge", "/">> \o n = p]
           ELSE OldPage ]

InitRewriterIdle ==
    /\ posts = <<>>
    /\ todo = {}
    /\ rw_pc = "idle"
    /\ rw_file = <<>>
    /\ rw_new = <<>>
    /\ rw_writes = {}
    /\ mtime = <<>>

Init ==
    /\ files \in PageLists
    /\ input_folder = "./knowledge"
    /\ output_folder = "./notes"
    /\ \E inf \in InputFiles, outf \in OutputFiles, outDir \in BOOLEAN :
         /\ (~outDir => \A n \in FileNames : outf[n] = <<"absent">>)
         /\ fs = MkFs(inf, outf, outDir)
         /\ dirs = {"./knowledge"} \cup (IF outDir THEN {"./notes"} ELSE {})
    /\ idx = 1
    /\ pc = "loop"
    /\ text = <<>>
    /\ html_text = <<>>
    /\ output = <<>>
    /\ handles = {}
    /\ error = "none"
    /\ fs0 = fs
    /\ dirs0 = dirs
    /\ log = <<>>
    /\ InitRewriterIdle

----------------------------------------------------------------------------
(* The script: for file in files: md_to_html(file) *)

\* The for loop takes the next page and calls md_to_html, or ends.
LoopStep ==
    /\ pc = "loop"
    /\ IF idx <= Len(files)
       THEN /\ pc' = "open_in"
            /\ fs0' = fs
            /\ dirs0' = dirs
       ELSE /\ pc' = "done"
            /\ UNCHANGED <<fs0, dirs0>>
    /\ UNCHANGED <<files, input_folder, output_folder, fs, dirs, idx, text,
                   html_text, output, handles, error, log>>
    /\ UNCHANGED rvars

\* A loop that skips a page whose input file is missing and goes on.
OpenInContinue ==
    /\ pc = "open_in"
    /\ LET p == InPath(Cur.file) IN
         /\ log' = Append(log, Event("open_r", p, <<>>))
         /\ IF p \in DOMAIN fs
            THEN /\ handles' = handles \cup {[path |-> p, mode |-> "r"]}
                 /\ pc' = "read"
                 /\ UNCHANGED idx
            ELSE /\ pc' = "loop"
                 /\ idx' = idx + 1
                 /\ UNCHANGED handles
    /\ UNCHANGED <<files, input_folder, output_folder, fs, dirs, text,
                   html_text, output, error, fs0, dirs0>>
    /\ UNCHANGED rvars

\* with open(f'{input_folder}/{file}', 'r') as f:
OpenIn ==
    /\ pc = "open_in"
    /\ LET p == InPath(Cur.file) IN
         /\ log' = Append(log, Event("open_r", p, <<>>))
         /\ IF p \in DOMAIN fs
            THEN /\ handles' = handles \cup {[path |-> p, mode |-> "r"]}
                 /\ pc' = "read"
                 /\ UNCHANGED error
            ELSE /\ error' = "FileNotFoundError"
                 /\ pc' = "crashed"
                 /\ UNCHANGED handles
    /\ UNCHANGED <<files, input_folder, output_folder, fs, dirs, idx, text,
                   html_text, output, fs0, dirs0>>
    /\ UNCHANGED rvars

\* text = f.read()
ReadIn ==
    /\ pc = "read"
    /\ LET p == InPath(Cur.file) IN
         IF Decodable(fs[p])
         THEN /\ text' = fs[p]
              /\ log' = Append(log, Event("read", p, fs[p]))
              /\ UNCHANGED error
         ELSE /\ error' = "UnicodeDecodeError"
              /\ UNCHANGED <<text, log>>
    /\ pc' = "close_in"
    /\ UNCHANGED <<files, input_folder, output_folder, fs, dirs, idx,
                   html_text, output, handles, fs0, dirs0>>
    /\ UNCHANGED rvars

\* A read whose exception is swallowed: rendering goes on with what text holds.
CloseInSwallow ==
    /\ pc = "close_in"
    /\ handles' = handles \ {[path |-> InPath(Cur.file), mode |-> "r"]}
    /\ pc' = "render"
    /\ error' = "none"
    /\ UNCHANGED <<files, input_folder, output_folder, fs, dirs, idx, text,
                   html_text, output, fs0, dirs0, log>>
    /\ UNCHANGED rvars

\* A read without the with block: the handle is never closed.
CloseInLeak ==
    /\ pc = "close_in"
    /\ pc' = IF error = "none" THEN "render" ELSE "crashed"
    /\ UNCHANGED <<files, input_folder, output_folder, fs, dirs, idx, text,
                   html_text, output, handles, error, fs0, dirs0, log>>
    /\ UNCHANGED rvars

\* leaving the with block closes the handle, on the normal path and when an
\* exception passes through it
CloseIn ==
    /\ pc = "close_in"
    /\ handles' = handles \ {[path |-> InPath(Cur.file), mode |-> "r"]}
    /\ pc' = IF error = "none" THEN "render" ELSE "crashed"
    /\ UNCHANGED <<files, input_folder, output_folder, fs, dirs, idx, text,
                   html_text, output, error, fs0, dirs0, log>>
    /\ UNCHANGED rvars

\* html_text = md.render(text); output = generate_page(...)
Render ==
    /\ pc = "render"
    /\ html_text' = MdRender(text)
    /\ output' = generate_page(MdRender(text), Cur.title, Cur.description)
    /\ log' = Append(log, Event("render", <<>>, <<>>))
    /\ pc' = "check_dir"
    /\ UNCHANGED <<files, input_folder, output_folder, fs, dirs, idx, text,
                   handles, error, fs0, dirs0>>
    /\ UNCHANGED rvars

\* A renderer that creates the missing directory instead of raising.
CheckDirAutoCreate ==
    /\ pc = "check_dir"
    /\ dirs' = dirs \cup {output_folder}
    /\ pc' = "open_out"
    /\ UNCHANGED <<files, input_folder, output_folder, fs, idx, text,
                   html_text, output, handles, error, fs0, dirs0, log>>
    /\ UNCHANGED rvars

\* A renderer without the check of the output folder.
CheckDirSkip ==
    /\ pc = "check_dir"
    /\ pc' = "open_out"
    /\ UNCHANGED <<files, input_folder, output_folder, fs, dirs, idx, text,
                   html_text, output, handles, error, fs0, dirs0, log>>
    /\ UNCHANGED rvars

\* if not os.path.exists(output_folder): raise ValueError(...)
CheckDir ==
    /\ pc = "check_dir"
    /\ IF output_folder \notin dirs
       THEN /\ error' = "ValueError"
            /\ pc' = "crashed"
       ELSE /\ pc' = "open_out"
            /\ UNCHANGED error
    /\ UNCHANGED <<files, input_folder, output_folder, fs, dirs, idx, text,
                   html_text, output, handles, fs0, dirs0, log>>
    /\ UNCHANGED rvars

\* The output opened in mode 'a': an existing file is not truncated.
OpenOutAppend ==
    /\ pc = "open_out"
    /\ LET p == OutPath(Cur.file) IN
         /\ log' = Append(log, Event("open_w", p, <<>>))
         /\ IF output_folder \in dirs
            THEN /\ fs' = IF p \in DOMAIN fs THEN fs ELSE (p :> <<>>) @@ fs
                 /\ handles' = handles \cup {[path |-> p, mode |-> "w"]}
                 /\ pc' = "write"
                 /\ UNCHANGED error
            ELSE /\ error' = "FileNotFoundError"
                 /\ pc' = "crashed"
                 /\ UNCHANGED <<fs, handles>>
    /\ UNCHANGED <<files, input_folder, output_folder, dirs, idx, text,
                   html_text, output, fs0, dirs0>>
    /\ UNCHANGED rvars

\* with open(f'{output_folder}/{file[:-3]}.html', 'w') as f:
\* mode 'w' creates the file or truncates it; a missing directory makes the
\* open fail
OpenOut ==
    /\ pc = "open_out"
    /\ LET p == OutPath(Cur.file) IN
         /\ log' = Append(log, Event("open_w", p, <<>>))
         /\ IF output_folder \in dirs
            THEN /\ fs' = (p :> <<>>) @@ fs
                 /\ handles' = handles \cup {[path |-> p, mode |-> "w"]}
                 /\ pc' = "write"
                 /\ UNCHANGED error
            ELSE /\ error' = "FileNotFoundError"
                 /\ pc' = "crashed"
                 /\ UNCHANGED <<fs, handles>>
    /\ UNCHANGED <<files, input_folder, output_folder, dirs, idx, text,
                   html_text, output, fs0, dirs0>>
    /\ UNCHANGED rvars

\* Lengths of the prefix a failing write may leave: nothing, the first piece,
\* or everything but the last piece.
FailPoints(data) == {0, 1, Len(data) - 1} \cap (0..(Len(data) - 1))

\* f.write(output): the data goes after what the file holds since the open;
\* when the device fails (disk full, I/O error) a proper prefix is left and
\* OSError is raised
WriteOut ==
    /\ pc = "write"
    /\ LET p == OutPath(Cur.file) IN
         \/ /\ fs' = (p :> (fs[p] \o output)) @@ fs
            /\ log' = Append(log, Event("write", p, output))
            /\ UNCHANGED error
         \/ \E k \in FailPoints(output) :
              /\ fs' = (p :> (fs[p] \o SubSeq(output, 1, k))) @@ fs
              /\ error' = "OSError"
              /\ UNCHANGED log
    /\ pc' = "close_out"
    /\ UNCHANGED <<files, input_folder, output_folder, dirs, idx, text,
                   html_text, output, handles, fs0, dirs0>>
    /\ UNCHANGED rvars

\* leaving the with block closes the handle; md_to_html returns and the loop
\* moves on, or the exception ends the script
CloseOut ==
    /\ pc = "close_out"
    /\ handles' = handles \ {[path |-> OutPath(Cur.file), mode |-> "w"]}
    /\ IF error = "none"
       THEN /\ pc' = "loop"
            /\ idx' = idx + 1
            /\ text' = <<>>
            /\ html_text' = <<>>
            /\ output' = <<>>
       ELSE /\ pc' = "crashed"
            /\ UNCHANGED <<idx, text, html_text, output>>
    /\ UNCHANGED <<files, input_folder, output_folder, fs, dirs, error, fs0, dirs0, log>>
    /\ UNCHANGED rvars

Next ==
    \/ LoopStep
    \/ OpenIn
    \/ ReadIn
    \/ CloseIn
    \/ Render
    \/ CheckDir
    \/ OpenOut
    \/ WriteOut
    \/ CloseOut

Spec == Init /\ [][Next]_vars

----------------------------------------------------------------------------
(* The image path rewriter (specification section 4.2) *)

MaxRefLen == 4

RefTokens == {"![", "](", "static/", ")", "a"}

RefTexts == UNION { [1..n -> RefTokens] : n \in 0..MaxRefLen }

P_md == <<"p", ".md">>
Q_md == <<"sub", "/", "q", ".md">>
R_txt == <<"r", ".txt">>
PostFiles == {P_md, Q_md, R_txt}

OneRef == <<"![", "a", "](", "static/", "a", ")">>

\* only files with extension .md are considered
IsMd(name) == name[Len(name)] = ".md"

\* Position of the "](" that ends the shortest alt text of a match starting
\* at s[1], or 0 when no match starts there: ![alt](static/rest)
AltEnd(s) ==
    LET js == { j \in 2..(Len(s) - 2) :
                  /\ s[j] = "]("
                  /\ s[j + 1] = "static/"
                  /\ \E k \in (j + 2)..Len(s) : s[k] = ")" }
    IN IF s # <<>> /\ s[1] = "![" /\ js # {}
       THEN CHOOSE j \in js : \A i \in js : j <= i
       ELSE 0

\* Position of the ")" that ends the shortest rest of the path
RestEnd(s, j) == CHOOSE k \in (j + 2)..Len(s) :
                    /\ s[k] = ")"
                    /\ \A i \in (j + 2)..(k - 1) : s[i] # ")"

\* Every match replaced, left to right, by ![alt](/rest)
RECURSIVE RewriteImagePaths(_)
RewriteImagePaths(s) ==
    IF s = <<>> THEN <<>>
    ELSE IF AltEnd(s) = 0 THEN <<Head(s)>> \o RewriteImagePaths(Tail(s))
    ELSE LET j == AltEnd(s)
             k == RestEnd(s, j)
         IN SubSeq(s, 1, j) \o <<"/">> \o SubSeq(s, j + 2, k)
            \o RewriteImagePaths(SubSeq(s, k + 1, Len(s)))

InitRendererIdle ==
    /\ files = <<>>
    /\ input_folder = "./knowledge"
    /\ output_folder = "./notes"
    /\ fs = <<>>
    /\ dirs = {}
    /\ idx = 1
    /\ pc = "done"
    /\ text = <<>>
    /\ html_text = <<>>
    /\ output = <<>>
    /\ handles = {}
    /\ error = "none"
    /\ fs0 = <<>>
    /\ dirs0 = {}
    /\ log = <<>>

InitRewrite ==
    /\ InitRendererIdle
    /\ \E t \in RefTexts, u \in {OneRef, <<"a">>} :
         posts = (P_md :> t) @@ (Q_md :> u) @@ (R_txt :> OneRef)
    /\ todo = PostFiles
    /\ rw_pc = "walk"
    /\ rw_file = <<>>
    /\ rw_new = <<>>
    /\ rw_writes = {}
    /\ mtime = [f \in PostFiles |-> 0]

\* the walk reaches a file that is not a Markdown file
RwIgnore ==
    /\ rw_pc = "walk"
    /\ \E f \in todo :
         /\ ~IsMd(f)
         /\ todo' = todo \ {f}
    /\ UNCHANGED <<posts, rw_pc, rw_file, rw_new, rw_writes, mtime>>
    /\ UNCHANGED pvars

\* the walk reaches a Markdown file (in any order): read it and substitute
RwRead ==
    /\ rw_pc = "walk"
    /\ \E f \in todo :
         /\ IsMd(f)
         /\ todo' = todo \ {f}
         /\ rw_file' = f
         /\ rw_new' = RewriteImagePaths(posts[f])
    /\ rw_pc' = "decide"
    /\ UNCHANGED <<posts, rw_writes, mtime>>
    /\ UNCHANGED pvars

\* nothing was replaced: the file is not opened for writing
RwSkip ==
    /\ rw_pc = "decide"
    /\ rw_new = posts[rw_file]
    /\ rw_pc' = "walk"
    /\ UNCHANGED <<posts, todo, rw_file, rw_new, rw_writes, mtime>>
    /\ UNCHANGED pvars

\* A rewriter that writes the file back whether or not anything changed.
RwWriteAlways ==
    /\ rw_pc = "decide"
    /\ posts' = [posts EXCEPT ![rw_file] = rw_new]
    /\ rw_writes' = rw_writes \cup {rw_file}
    /\ mtime' = [mtime EXCEPT ![rw_file] = @ + 1]
    /\ rw_pc' = "walk"
    /\ UNCHANGED <<todo, rw_file, rw_new>>
    /\ UNCHANGED pvars

\* at least one replacement: open the file for writing and overwrite it
RwWrite ==
    /\ rw_pc = "decide"
    /\ rw_new # posts[rw_file]
    /\ posts' = [posts EXCEPT ![rw_file] = rw_new]
    /\ rw_writes' = rw_writes \cup {rw_file}
    /\ mtime' = [mtime EXCEPT ![rw_file] = @ + 1]
    /\ rw_pc' = "walk"
    /\ UNCHANGED <<todo, rw_file, rw_new>>
    /\ UNCHANGED pvars

NextRewrite ==
    \/ RwIgnore
    \/ RwRead
    \/ RwSkip
    \/ RwWrite

SpecRewrite == InitRewrite /\ [][NextRewrite]_vars

----------------------------------------------------------------------------
(* Properties *)

IsPrefix(a, b) == Len(a) <= Len(b) /\ SubSeq(b, 1, Len(a)) = a

LogIdx(ops) == { i \in 1..Len(log) : log[i].op \in ops }

\* the steps logged for page n, in order
PageOps(n) ==
    LET q == SelectSeq(log, LAMBDA e : e.n = n)
    IN [ i \in 1..Len(q) |-> q[i].op ]

FullCall == <<"open_r", "read", "render", "open_w", "write">>

\* pages whose call has started, and pages whose call has returned
Started(n) == \E i \in LogIdx({"open_r"}) : log[i].n = n
Returned(n) == n < idx

TextOf(n) == log[CHOOSE i \in LogIdx({"read"}) : log[i].n = n].data
DataOf(n) == log[CHOOSE i \in LogIdx({"write"}) : log[i].n = n].data

HasMdExt(file) ==
    Len(file) >= 3 /\ SubSeq(file, Len(file) - 2, Len(file)) = <<".", "m", "d">>

\* the page whose call started last
LastCall == IF pc \in {"loop", "done"} THEN idx - 1 ELSE idx

OutDirWasMissing == output_folder \notin dirs0

InputMissing(n) == InPath(files[n].file) \notin DOMAIN fs
InputUnreadable(n) ==
    /\ InPath(files[n].file) \in DOMAIN fs
    /\ ~Decodable(fs[InPath(files[n].file)])

\* C1: when the output directory does not exist as md_to_html runs, the call
\* ends in an error and nothing is written: no output file is opened, created
\* or modified, and the directory is not created.
C1_NoWriteWithoutOutputDir ==
    OutDirWasMissing =>
        /\ dirs = dirs0
        /\ fs = fs0
        /\ \A h \in handles : h.mode # "w"
        /\ LogIdx({"open_w", "write"}) = {}
        /\ pc \notin {"open_out", "write", "close_out", "done"}
        /\ idx = 1
        /\ (pc = "crashed" => error \in {"ValueError", "FileNotFoundError",
                                         "UnicodeDecodeError"})

C1_Witness ==
    /\ OutDirWasMissing
    /\ pc = "crashed"
    /\ error = "ValueError"
    /\ Cur.file = B_md

\* C2: the file md_to_html opens and writes is <output_folder>/<name>.html,
\* <name> being the input filename without its .md extension; the path depends
\* on the filename alone.
C2_OutputPathFromFilename ==
    /\ \A i \in LogIdx({"open_w", "write"}) :
         LET file == files[log[i].n].file IN
           HasMdExt(file) =>
             \E k \in 0..Len(file) :
               /\ file = SubSeq(file, 1, k) \o <<".", "m", "d">>
               /\ log[i].path = <<output_folder, "/">> \o SubSeq(file, 1, k)
                                  \o <<".html">>
    /\ \A h \in handles :
         (h.mode = "w" /\ HasMdExt(Cur.file)) =>
             \E k \in 0..Len(Cur.file) :
               /\ Cur.file = SubSeq(Cur.file, 1, k) \o <<".", "m", "d">>
               /\ h.path = <<output_folder, "/">> \o SubSeq(Cur.file, 1, k)
                             \o <<".html">>
    /\ \A i, j \in LogIdx({"open_w", "write"}) :
         files[log[i].n].file = files[log[j].n].file => log[i].path = log[j].path

C2_Witness ==
    /\ pc = "close_out"
    /\ error = "none"
    /\ idx = 2
    /\ files[1].file = A_md
    /\ files[2].file = A_md
    /\ files[1].title # files[2].title
    /\ log[Len(log)].op = "write"
    /\ log[Len(log)].path = <<"./notes", "/", "a", ".html">>

\* C3: generate_page returns the fixed template: <title> with the title, the
\* description meta tag with the description, the viewport meta tag, the two
\* stylesheet links in order, and the fragment inside the article element;
\* title, description and fragment are inserted verbatim, each in one slot.
C3_TemplateShape ==
    output # <<>> =>
        LET t == Cur.title
            d == Cur.description
            h == html_text
            o == output
            a == Len(t)
            b == Len(t) + Len(d)
        IN /\ Len(o) = 9 + Len(t) + Len(d) + Len(h)
           /\ o[1] = "<title>"
           /\ SubSeq(o, 2, 1 + a) = t
           /\ o[2 + a] = "</title>\n"
           /\ o[3 + a] = "<meta name=\"description\" content=\""
           /\ SubSeq(o, 4 + a, 3 + b) = d
           /\ o[4 + b] = "\">\n"
           /\ o[5 + b] = "<meta name=\"viewport\" content=\"width=device-width, initial-scale=1\">\n"
           /\ o[6 + b] = "<link rel=\"stylesheet\" href=\"style/github-markdown.css\">\n"
           /\ o[7 + b] = "<link rel=\"stylesheet\" href=\"style/format.css\">\n"
           /\ o[8 + b] = "<article class=\"markdown-body\">\n"
           /\ SubSeq(o, 9 + b, 8 + b + Len(h)) = h
           /\ o[9 + b + Len(h)] = "\n</article>\n"

C3_Witness ==
    /\ pc = "check_dir"
    /\ output # <<>>
    /\ Cur.title = <<"<", "\"">>
    /\ html_text = <<"<p>", "x", "<br />\n", "x", "</p>\n">>

\* C4: two calls of md_to_html on the same input content, title and
\* description write the same bytes, and after a call returns the output file
\* holds exactly those bytes, whatever it held before and however often the
\* page was rendered earlier.
C4_DeterministicOutput ==
    /\ \A i, j \in 1..Len(files) :
         ( /\ Returned(i)
           /\ Returned(j)
           /\ files[i].title = files[j].title
           /\ files[i].description = files[j].description
           /\ TextOf(i) = TextOf(j) )
         => DataOf(i) = DataOf(j)
    /\ \A j \in 1..Len(files) :
         ( /\ Returned(j)
           /\ \A i \in LogIdx({"open_w"}) :
                log[i].n > j => log[i].path # OutPath(files[j].file) )
         => /\ OutPath(files[j].file) \in DOMAIN fs
            /\ fs[OutPath(files[j].file)] = DataOf(j)

C4_Witness ==
    /\ pc = "loop"
    /\ idx = 3
    /\ files[1] = files[2]
    /\ fs[OutPath(files[2].file)] = DataOf(1)

\* C5 as stated: whenever the output directory is absent, the call fails with
\* the ValueError naming the output folder, also when the input file is
\* missing or unreadable.
C5_AlwaysValueError ==
    (OutDirWasMissing /\ pc = "crashed") => error = "ValueError"

\* C5 amended: with the output directory absent, the call fails with the
\* ValueError when the input file was read; the check comes after the read
\* and the render, so a missing or unreadable input file fails the call with
\* the error of the read instead. In both cases no write is attempted.
C5_ValueErrorAfterRead ==
    (OutDirWasMissing /\ pc = "crashed") =>
        /\ error = IF InputMissing(idx) THEN "FileNotFoundError"
                   ELSE IF InputUnreadable(idx) THEN "UnicodeDecodeError"
                   ELSE "ValueError"
        /\ (error = "ValueError" => PageOps(idx) = <<"open_r", "read", "render">>)
        /\ LogIdx({"open_w", "write"}) = {}

C5_Witness ==
    /\ OutDirWasMissing
    /\ pc = "crashed"
    /\ error = "ValueError"
    /\ PageOps(idx) = <<"open_r", "read", "render">>
    /\ Cur.file = A_md

\* C6: when the input file of a request does not exist or cannot be read,
\* md_to_html ends in an error that stops the script, the open is not tried
\* again, and no output file is written or modified for the request.
C6_MissingInputIsFatal ==
    \A n \in 1..Len(files) :
      (Started(n) /\ (InputMissing(n) \/ InputUnreadable(n))) =>
          /\ idx = n
          /\ pc \in {"read", "close_in", "crashed"}
          /\ (pc = "crashed" =>
                error = IF InputMissing(n) THEN "FileNotFoundError"
                        ELSE "UnicodeDecodeError")
          /\ PageOps(n) = <<"open_r">>
          /\ fs = fs0
          /\ (pc = "crashed" => ~ENABLED Next)

C6_Witness ==
    /\ pc = "crashed"
    /\ error = "FileNotFoundError"
    /\ idx = 2
    /\ InputMissing(2)
    /\ fs[OutPath(files[1].file)] = DataOf(1)

C9_HandleDiscipline ==
    /\ Cardinality(handles) <= 1
    /\ (pc \in {"read", "close_in"} =>
          handles = {[path |-> InPath(Cur.file), mode |-> "r"]})
    /\ (pc \in {"write", "close_out"} =>
          handles = {[path |-> OutPath(Cur.file), mode |-> "w"]})
    /\ (pc \in {"loop", "open_in", "render", "check_dir", "open_out",
                "done", "crashed"} => handles = {})

C9_Witness ==
    /\ pc = "crashed"
    /\ error = "OSError"
    /\ handles = {}
    /\ LogIdx({"open_w"}) # {}

\* what a state of C10 says about the files
C10_State ==
    /\ input_folder = "./knowledge"
    /\ output_folder = "./notes"
    /\ dirs = dirs0
    /\ { q \in DOMAIN fs : q[1] = "./knowledge" }
         = { q \in DOMAIN fs0 : q[1] = "./knowledge" }
    /\ \A q \in DOMAIN fs0 : q[1] = "./knowledge" => fs[q] = fs0[q]
    /\ IF LastCall = 0 THEN fs = fs0
       ELSE LET p == OutPath(files[LastCall].file) IN
            /\ DOMAIN fs0 \subseteq DOMAIN fs
            /\ DOMAIN fs \subseteq DOMAIN fs0 \cup {p}
            /\ \A q \in DOMAIN fs0 : q # p => fs[q] = fs0[q]
            /\ InPath(files[LastCall].file) # p
            /\ (pc \in {"loop", "done"} => (p \in DOMAIN fs /\ fs[p] = DataOf(LastCall)))
            /\ (pc \notin {"loop", "done"} =>
                  \/ (p \in DOMAIN fs0 /\ fs[p] = fs0[p])
                  \/ (p \notin DOMAIN fs0 /\ p \notin DOMAIN fs)
                  \/ (p \in DOMAIN fs /\ IsPrefix(fs[p], output)
                        /\ (fs[p] # output => pc \in {"write", "close_out", "crashed"})))

\* what a step of C10 leaves alone
C10_Step ==
    /\ files' = files
    /\ input_folder' = input_folder
    /\ output_folder' = output_folder
    /\ dirs' = dirs
    /\ \A q \in DOMAIN fs : q \in DOMAIN fs'
    /\ \A q \in DOMAIN fs' :
         (q \notin DOMAIN fs \/ fs'[q] # fs[q]) =>
             (pc \in {"open_out", "write"} /\ q = OutPath(Cur.file))

\* C10: a call of md_to_html changes at most one file, the output file of its
\* own request; when the call returns, the file holds the new page and nothing
\* of its previous content (a call that fails while writing leaves a prefix of
\* the new page); the input file, all other files, the directories, the page
\* list and the folder settings stay as they were, whether the call succeeds
\* or fails.
C10_OnlyOwnOutputChanges == [](C10_State) /\ [][C10_Step]_vars

C10_Witness ==
    /\ pc = "loop"
    /\ idx = 2
    /\ OutPath(files[1].file) \in DOMAIN fs0
    /\ fs0[OutPath(files[1].file)] = OldPage
    /\ fs[OutPath(files[1].file)] = DataOf(1)
    /\ Cardinality(DOMAIN fs) >= 4

\* an image reference with a path under static/ occurs in s
HasStaticRef(s) ==
    \E i, j, k \in 1..Len(s) :
      /\ i < j
      /\ j + 1 < k
      /\ s[i] = "!["
      /\ s[j] = "]("
      /\ s[j + 1] = "static/"
      /\ s[k] = ")"

\* C7: the rewriter opens a Markdown file for writing and overwrites it only
\* if at least one ![alt](static/...) reference was replaced in it; a file
\* with no match keeps its content and its modification marker and is never
\* opened for writing.
C7_WriteOnlyWhenReplaced ==
    [][ \A f \in PostFiles :
          ( \/ (f \in rw_writes' /\ f \notin rw_writes)
            \/ posts'[f] # posts[f]
            \/ mtime'[f] # mtime[f] )
          => /\ f = rw_file
             /\ IsMd(f)
             /\ HasStaticRef(posts[f])
             /\ posts'[f] # posts[f]
             /\ f \in rw_writes' ]_vars

C7_Witness ==
    /\ todo = {}
    /\ rw_pc = "walk"
    /\ P_md \in rw_writes
    /\ Q_md \notin rw_writes
    /\ mtime[Q_md] = 0
    /\ mtime[P_md] = 1
    /\ posts[Q_md] = <<"a">>

====
